---- MODULE Spec2Model ----
(***************************************************************************)
(* minecraft_runner: the launcher's main flow (src/src/main.rs) and the    *)
(* jar selection it relies on (src/src/find_jar.rs).                       *)
(*                                                                         *)
(* Three specifications share the module:                                  *)
(*   Spec       the launcher run after run over one working directory,     *)
(*              with the directory and the preference file edited between  *)
(*              runs;                                                      *)
(*   SpecIdx    get_jar_from_jars applied to every jar list and position;  *)
(*   SpecParse  parse_number_in_range applied to every input line.         *)
(*                                                                         *)
(* Conventions.  A file name is a record [stem, ext] ("server.jar" is      *)
(* [stem |-> "server", ext |-> "jar"]); a path is the sequence of its      *)
(* components.  An Option is a sequence of length 0 (None) or 1 (Some).    *)
(* Rust indices are 0-based: At(s, i) is s[i] of the source.  A line of    *)
(* input is a sequence of one-character strings.                           *)
(***************************************************************************)
EXTENDS Integers, Sequences, FiniteSets, TLC

VARIABLES
    dir,              \* the working directory: a set of entries [name, is_file]
    config,           \* content of minecraft_runner_config.ron
    remembered,       \* history: name stored by the last successful save, if the file is untouched since
    pc,               \* position of main()
    java,             \* Option<PathBuf> returned by find_java
    helper_status,    \* result of the AutoIpMinecraft.jar launch: "", "ok", "err"
    found,            \* the FindServerJar value returned by find_server_jar
    jars,             \* the slice given to ask_which_jar_to_use / get_jar_from_jars
    menu,             \* the numbered entries ask_which_jar_to_use printed
    line,             \* the line last read from standard input
    retries,          \* history: rejected lines of the current prompt loop (saturating)
    rejected_blank,   \* history: the line last rejected by the prompt loop was blank
    idx,              \* the value the prompt loop broke with / the idx argument
    chosen_jar,       \* Option<PathBuf>: result of ask_which_jar_to_use
    save_result,      \* result of save_jar_preference: "", "ok", "read_err", "write_err"
    server_jar,       \* Option<file name> handed to "-jar"
    stages,           \* history: the stages of main() entered in this run, in order
    abort_reason,     \* why main() ended early, "" otherwise
    config_at_start,  \* history: the preference file as it was when the run began
    run_pref,         \* history: the value of remembered when the run began
    parsed            \* result of the last parse_number_in_range call

vars == <<dir, config, remembered, pc, java, helper_status, found, jars, menu,
          line, retries, rejected_blank, idx, chosen_jar, save_result, server_jar,
          stages, abort_reason, config_at_start, run_pref, parsed>>

----------------------------------------------------------------------------
(* Bounds of the model *)

\* jars other than server.jar that may appear in the working directory
NumOtherJars == 2
\* longest line read from standard input in Spec
MaxStdinLen == 2
\* the history counter of rejected lines saturates here
MaxRetries == 1
\* jars other than server.jar in the lists of SpecIdx
MaxIdxOthers == 4
\* longest input of SpecParse
MaxLineLen == 4
\* largest upper end n of the range 1..=n in SpecParse
MaxRange == 3

----------------------------------------------------------------------------
(* Names, paths, characters *)

Name(stem, ext) == [stem |-> stem, ext |-> ext]

ServerJarName == Name("server", "jar")

OtherStems == <<"s1", "s2", "s3", "s4", "s5", "s6">>

OtherJarNames(k) == {Name(OtherStems[i], "jar") : i \in 1..k}

\* jar files that may exist in the working directory
JarNames == {ServerJarName} \cup OtherJarNames(NumOtherJars)

\* a jar that is never in the directory: what a stale preference names
StaleName == Name("old", "jar")

\* entries of the directory that are always there and are no jar files
PropertiesEntry == [name |-> Name("server", "properties"), is_file |-> TRUE]

LibrariesDirEntry == [name |-> Name("bundler", "jar"), is_file |-> FALSE]

FixedEntries == {PropertiesEntry, LibrariesDirEntry}

JarEntry(n) == [name |-> n, is_file |-> TRUE]

At(s, i) == s[i + 1]

NoPath == <<>>

RECURSIVE Perms(_)
Perms(S) ==
    IF S = {} THEN {<<>>}
    ELSE UNION {{<<x>> \o p : p \in Perms(S \ {x})} : x \in S}

\* sequences without repetition, of length 1..k, over S
RECURSIVE ListsUpTo(_, _)
ListsUpTo(S, k) ==
    IF k = 0 THEN {}
    ELSE LET shorter == ListsUpTo(S, k - 1)
         IN  {<<x>> : x \in S} \cup shorter
             \cup UNION {{Append(l, x) : x \in S \ {l[i] : i \in 1..Len(l)}} : l \in shorter}

RECURSIVE StringsUpTo(_, _)
StringsUpTo(A, k) ==
    IF k = 0 THEN {<<>>}
    ELSE LET shorter == StringsUpTo(A, k - 1)
         IN  shorter \cup {Append(s, c) : s \in shorter, c \in A}

Digits == {"0", "1", "2", "3", "4", "5", "6", "7", "8", "9"}

DigitValue(c) ==
    CASE c = "0" -> 0 [] c = "1" -> 1 [] c = "2" -> 2 [] c = "3" -> 3
      [] c = "4" -> 4 [] c = "5" -> 5 [] c = "6" -> 6 [] c = "7" -> 7
      [] c = "8" -> 8 [] c = "9" -> 9

\* characters of the lines typed in Spec
StdinAlphabet == {" ", "\n", "1", "2", "3", "a"}

StdinLines == StringsUpTo(StdinAlphabet, MaxStdinLen)

\* characters of the inputs of SpecParse
ParseAlphabet == {" ", "\n", "0", "1", "3", "9", "a", "-"}

ParseLines == StringsUpTo(ParseAlphabet, MaxLineLen)

----------------------------------------------------------------------------
(* std::path *)

\* the working directory main() runs in
current_dir == <<Name("srv", "")>>

\* Path::join
join(path, name) == Append(path, name)

\* Path::file_name: Option of the last component; None for the empty path and ".."
file_name(path) ==
    IF Len(path) = 0 \/ path[Len(path)] = Name("..", "") THEN <<>>
    ELSE <<path[Len(path)]>>

\* Path::extension: Option of the extension of the file name
extension(path) ==
    IF file_name(path) = <<>> \/ file_name(path)[1].ext = "" THEN <<>>
    ELSE <<file_name(path)[1].ext>>

----------------------------------------------------------------------------
(* find_jar.rs: the preference file *)

ConfigMissing == [kind |-> "missing", jar_preference |-> NoPath]

\* content that ron::from_str rejects (also a partly written file)
ConfigCorrupt == [kind |-> "corrupt", jar_preference |-> NoPath]

\* ron::to_string of MinecraftRunnerConfig { jar_preference }
ConfigValid(p) == [kind |-> "valid", jar_preference |-> p]

\* read_config: Ok(config), Err(io NotFound) or Err(other)
read_config(file) ==
    CASE file.kind = "missing" ->
            [ok |-> FALSE, not_found |-> TRUE, jar_preference |-> NoPath]
      [] file.kind = "corrupt" ->
            [ok |-> FALSE, not_found |-> FALSE, jar_preference |-> NoPath]
      [] OTHER ->
            [ok |-> TRUE, not_found |-> FALSE, jar_preference |-> file.jar_preference]

\* a plausible slip: the whole path of the jar is stored, not its file name
save_jar_preference_full_path(jar, file, write) ==
    LET read == read_config(file)
    IN  IF ~read.ok /\ ~read.not_found
        THEN [result |-> "read_err", file |-> file]
        ELSE IF write = "ok" THEN [result |-> "ok", file |-> ConfigValid(jar)]
             ELSE [result |-> "write_err",
                   file |-> IF write = "truncated" THEN ConfigCorrupt ELSE file]

\* save_jar_preference(jar, working_directory): file is the content found in the
\* directory, write is what std::fs::write does: "ok", "untouched" (the file
\* could not be opened: Err, content kept) or "truncated" (Err after the file
\* was truncated).  Returns the Result and the content left behind.
save_jar_preference(jar, file, write) ==
    LET read == read_config(file)
    IN  IF ~read.ok /\ ~read.not_found
        THEN [result |-> "read_err", file |-> file]
        ELSE IF file_name(jar) = <<>>
        THEN [result |-> "no_file_name", file |-> file]
        ELSE IF write = "ok"
        THEN [result |-> "ok", file |-> ConfigValid(<<file_name(jar)[1]>>)]
        ELSE [result |-> "write_err",
              file |-> IF write = "truncated" THEN ConfigCorrupt ELSE file]

----------------------------------------------------------------------------
(* find_jar.rs: find_server_jar *)

ServerJar(p) == [tag |-> "ServerJar", path |-> p, jars |-> <<>>]

OneUnknownJar(p) == [tag |-> "OneUnknownJar", path |-> p, jars |-> <<>>]

MultipleJars(js) == [tag |-> "MultipleJars", path |-> NoPath, jars |-> js]

PreferredJar(p, js) == [tag |-> "PreferredJar", path |-> p, jars |-> js]

FoundNone == [tag |-> "None", path |-> NoPath, jars |-> <<>>]

\* no value yet
NotFoundYet == [tag |-> "", path |-> NoPath, jars |-> <<>>]

\* the filters of the read_dir iterator
is_jar_file(entry) ==
    entry.is_file /\ extension(join(current_dir, entry.name)) = <<"jar">>

\* the jars vector: the entries in read_dir order, kept when they are jar files
scan_jars(entries) ==
    LET kept == SelectSeq(entries, is_jar_file)
    IN  [i \in 1..Len(kept) |-> join(current_dir, kept[i].name)]

\* path.file_name().map(|file_name| file_name == "server.jar").unwrap_or_default()
is_server_jar(path) == file_name(path) = <<ServerJarName>>

\* jars.iter().find(|jar| jar.file_name() == preference.file_name()): Option<PathBuf>
find_preferred(js, preference) ==
    LET hits == {i \in 1..Len(js) : file_name(js[i]) = file_name(preference)}
    IN  IF hits = {} THEN <<>>
        ELSE <<js[CHOOSE i \in hits : \A j \in hits : i <= j]>>

\* the policy for the jars left when no preference applies
single_or_multiple(js) ==
    IF Len(js) = 1
    THEN IF is_server_jar(js[1]) THEN ServerJar(js[1]) ELSE OneUnknownJar(js[1])
    ELSE MultipleJars(js)

\* a plausible slip: the stored preference is trusted without looking for it in the scan
find_server_jar_trusting(entries, file) ==
    LET js == scan_jars(entries)
        read == read_config(file)
    IN  IF Len(js) = 0 THEN FoundNone
        ELSE IF read.ok /\ file_name(read.jar_preference) # <<>>
        THEN PreferredJar(join(current_dir, file_name(read.jar_preference)[1]), js)
        ELSE single_or_multiple(js)

\* a plausible slip: a lone jar is taken for server.jar whatever its name
find_server_jar_lone_is_server(entries, file) ==
    LET js == scan_jars(entries)
        read == read_config(file)
        preferred == IF read.ok THEN find_preferred(js, read.jar_preference) ELSE <<>>
    IN  IF Len(js) = 0 THEN FoundNone
        ELSE IF preferred # <<>> THEN PreferredJar(preferred[1], js)
        ELSE IF Len(js) = 1 THEN ServerJar(js[1])
        ELSE MultipleJars(js)

\* a plausible slip: server.jar, when present, wins over the stored preference
find_server_jar_server_first(entries, file) ==
    LET js == scan_jars(entries)
        read == read_config(file)
        preferred == IF read.ok THEN find_preferred(js, read.jar_preference) ELSE <<>>
        server == {i \in 1..Len(js) : is_server_jar(js[i])}
    IN  IF Len(js) = 0 THEN FoundNone
        ELSE IF server # {} THEN ServerJar(js[CHOOSE i \in server : TRUE])
        ELSE IF preferred # <<>> THEN PreferredJar(preferred[1], js)
        ELSE single_or_multiple(js)

\* find_server_jar(root) once read_dir succeeded: entries is what read_dir
\* yields, in its order; file is the content of the preference file.  Both
\* read_config errors (NotFound, and the logged one) fall through to the policy.
find_server_jar(entries, file) ==
    LET js == scan_jars(entries)
        read == read_config(file)
        preferred == IF read.ok THEN find_preferred(js, read.jar_preference) ELSE <<>>
    IN  IF Len(js) = 0 THEN FoundNone
        ELSE IF preferred # <<>> THEN PreferredJar(preferred[1], js)
        ELSE single_or_multiple(js)

----------------------------------------------------------------------------
(* find_jar.rs: parse_number_in_range *)

\* nom space0 takes spaces and tabs
is_space(c) == c \in {" ", "\t"}

\* char::is_whitespace, as str::trim uses it
is_whitespace(c) == c \in {" ", "\t", "\n", "\r"}

is_digit(c) == c \in Digits

RECURSIVE skip_space0(_)
skip_space0(s) ==
    IF Len(s) > 0 /\ is_space(s[1]) THEN skip_space0(Tail(s)) ELSE s

\* the longest prefix of digits (what digit1 returns when it is not empty)
RECURSIVE take_digits(_)
take_digits(s) ==
    IF Len(s) > 0 /\ is_digit(s[1]) THEN <<s[1]>> \o take_digits(Tail(s)) ELSE <<>>

\* str::parse::<usize> of a non-empty string of digits.  usize overflow needs
\* twenty digits and cannot happen within the line lengths modelled.
RECURSIVE parse_usize(_)
parse_usize(ds) ==
    IF Len(ds) = 0 THEN 0
    ELSE 10 * parse_usize(SubSeq(ds, 1, Len(ds) - 1)) + DigitValue(ds[Len(ds)])

ParseOk(n) == [ok |-> TRUE, num |-> n, err |-> ""]

ParseErr(e) == [ok |-> FALSE, num |-> 0, err |-> e]

NotParsed == [ok |-> FALSE, num |-> 0, err |-> "not called"]

\* parse_number_in_range(number_input, lo..=hi): what follows the digits is the
\* parser's remaining input, which the function drops
parse_number_in_range(number_input, lo, hi) ==
    LET digits == take_digits(skip_space0(number_input))
    IN  IF Len(digits) = 0 THEN ParseErr("not a valid number")
        ELSE IF ~(lo <= parse_usize(digits) /\ parse_usize(digits) <= hi)
        THEN ParseErr("not within the required range")
        ELSE ParseOk(parse_usize(digits))

----------------------------------------------------------------------------
(* find_jar.rs: ask_which_jar_to_use and get_jar_from_jars *)

\* the server_jar binding: Option of the first index whose file name is server.jar
server_jar_idx_of(js) ==
    LET hits == {i \in 0..(Len(js) - 1) : is_server_jar(At(js, i))}
    IN  IF hits = {} THEN <<>> ELSE <<CHOOSE i \in hits : \A j \in hits : i <= j>>

\* the numbered entries printed: entry k is what label k shows
print_menu(js) ==
    LET s == server_jar_idx_of(js)
        others == SelectSeq([i \in 1..Len(js) |-> i - 1],
                            LAMBDA i : s = <<>> \/ i # s[1])
        rest == [k \in 1..Len(others) |-> At(js, others[k])]
    IN  IF s = <<>> THEN rest ELSE <<At(js, s[1])>> \o rest

\* str::trim
RECURSIVE trim_start(_)
trim_start(s) ==
    IF Len(s) > 0 /\ is_whitespace(s[1]) THEN trim_start(Tail(s)) ELSE s

RECURSIVE trim_end(_)
trim_end(s) ==
    IF Len(s) > 0 /\ is_whitespace(s[Len(s)])
    THEN trim_end(SubSeq(s, 1, Len(s) - 1)) ELSE s

trim(s) == trim_end(trim_start(s))

\* a plausible slip: an empty line is taken as the default whether one exists or not
empty_line_takes_default_always(server_jar_idx, input) == Len(trim(input)) = 0

\* server_jar.is_some() && line.trim().is_empty()
empty_line_takes_default(server_jar_idx, input) ==
    server_jar_idx # <<>> /\ Len(trim(input)) = 0

\* a plausible slip: the positions before the default are not shifted
get_jar_from_jars_unshifted(js, i, server_jar_idx) ==
    IF server_jar_idx = <<>> THEN At(js, i)
    ELSE IF i = 0 THEN At(js, server_jar_idx[1])
    ELSE At(js, i)

\* get_jar_from_jars(jars, idx, server_jar_idx); the last arm of the match
\* is unreachable, the arm before it taking every idx above server_jar_idx
get_jar_from_jars(js, i, server_jar_idx) ==
    IF server_jar_idx = <<>> THEN At(js, i)
    ELSE IF i = 0 THEN At(js, server_jar_idx[1])
    ELSE IF 1 <= i /\ i <= server_jar_idx[1] THEN At(js, i - 1)
    ELSE At(js, i)

\* one turn of the prompt loop on the line read: whether it breaks, with which
\* idx, and what parse_number_in_range returned when it was called
prompt_turn(js, input) ==
    LET parse == parse_number_in_range(input, 1, Len(js))
    IN  IF empty_line_takes_default(server_jar_idx_of(js), input)
        THEN [break |-> TRUE, idx |-> 0, parsed |-> NotParsed]
        ELSE IF parse.ok
        THEN [break |-> TRUE, idx |-> parse.num - 1, parsed |-> parse]
        ELSE [break |-> FALSE, idx |-> 0, parsed |-> parse]

----------------------------------------------------------------------------
(* main.rs: find_java *)

JavaOnPath == <<Name("java", "")>>

JavaInUsrBin == <<Name("usr", ""), Name("bin", ""), Name("java", "")>>

\* find_java (not windows): "java" through PATH, then /usr/bin/java; each
\* argument tells whether find_java_in succeeds there
find_java(on_path, in_usr_bin) ==
    IF on_path THEN <<JavaOnPath>>
    ELSE IF in_usr_bin THEN <<JavaInUsrBin>>
    ELSE <<>>

----------------------------------------------------------------------------
(* The state machine of Spec *)

PreferencePaths ==
    {<<n>> : n \in JarNames \cup {StaleName}}
        \cup {NoPath, <<Name("backup", ""), ServerJarName>>}

\* what the preference file may hold
ConfigContents ==
    {ConfigMissing, ConfigCorrupt} \cup {ConfigValid(p) : p \in PreferencePaths}

\* the locals of main() before it runs
RunLocalsReset ==
    /\ java = <<>>
    /\ helper_status = ""
    /\ found = NotFoundYet
    /\ jars = <<>>
    /\ menu = <<>>
    /\ line = <<>>
    /\ retries = 0
    /\ rejected_blank = FALSE
    /\ idx = 0
    /\ chosen_jar = <<>>
    /\ save_result = ""
    /\ server_jar = <<>>
    /\ stages = <<>>
    /\ abort_reason = ""
    /\ parsed = NotParsed

Init ==
    /\ \E present \in SUBSET JarNames :
           dir = FixedEntries \cup {JarEntry(n) : n \in present}
    /\ config \in ConfigContents
    /\ remembered = <<>>
    /\ pc = "idle"
    /\ config_at_start = config
    /\ run_pref = <<>>
    /\ RunLocalsReset

run_locals == <<java, helper_status, found, jars, menu, line, retries,
                rejected_blank, idx,
                chosen_jar, save_result, server_jar, stages, abort_reason, parsed>>

history == <<config_at_start, run_pref>>

prompt_history == <<retries, rejected_blank>>

(* The environment, between two runs *)

AddJar ==
    /\ pc = "idle"
    /\ \E n \in JarNames :
           /\ JarEntry(n) \notin dir
           /\ dir' = dir \cup {JarEntry(n)}
    /\ UNCHANGED <<config, remembered, pc, run_locals, history>>

RemoveJar ==
    /\ pc = "idle"
    /\ \E n \in JarNames :
           /\ JarEntry(n) \in dir
           /\ dir' = dir \ {JarEntry(n)}
    /\ UNCHANGED <<config, remembered, pc, run_locals, history>>

EditConfig ==
    /\ pc = "idle"
    /\ \E c \in ConfigContents :
           /\ c # config
           /\ config' = c
    /\ remembered' = <<>>
    /\ UNCHANGED <<dir, pc, run_locals, history>>

(* main() *)

\* a plausible slip: main goes on without a Java runtime
after_find_java_unchecked(found_java) == "helper"

\* match find_java() { Some(v) => v, None => panic!("Java not found") }
after_find_java(found_java) == IF found_java = <<>> THEN "aborted" ELSE "helper"

FindJava ==
    /\ pc = "idle"
    /\ \E on_path, in_usr_bin \in BOOLEAN :
           /\ java' = find_java(on_path, in_usr_bin)
           /\ pc' = after_find_java(java')
    /\ abort_reason' = IF pc' = "aborted" THEN "Java not found" ELSE ""
    /\ stages' = <<"java">>
    /\ config_at_start' = config
    /\ run_pref' = remembered
    /\ UNCHANGED <<dir, config, remembered, helper_status, found, jars, menu, line,
                   prompt_history, idx, chosen_jar, save_result, server_jar, parsed>>

\* if let Err(e) = status { error!(...) }: logged, nothing else
after_helper(status) == "scan"

LaunchHelper ==
    /\ pc = "helper"
    /\ \E status \in {"ok", "err"} :
           /\ helper_status' = status
           /\ pc' = after_helper(status)
    /\ abort_reason' = IF pc' = "aborted" THEN "helper failed" ELSE ""
    /\ stages' = Append(stages, "helper")
    /\ UNCHANGED <<dir, config, remembered, java, found, jars, menu, line,
                   prompt_history, idx, chosen_jar, save_result, server_jar, parsed,
                   history>>

\* find_server_jar(&current_dir)? with read_dir succeeding, in any order
FindServerJar ==
    /\ pc = "scan"
    /\ \E entries \in Perms(dir) : found' = find_server_jar(entries, config)
    /\ pc' = "match"
    /\ stages' = Append(stages, "select")
    /\ UNCHANGED <<dir, config, remembered, java, helper_status, jars, menu, line,
                   prompt_history, idx, chosen_jar, save_result, server_jar,
                   abort_reason, parsed, history>>

\* find_server_jar(&current_dir)? with read_dir failing: main returns the error
FindServerJarFails ==
    /\ pc = "scan"
    /\ pc' = "aborted"
    /\ abort_reason' = "read_dir failed"
    /\ stages' = Append(stages, "select")
    /\ UNCHANGED <<dir, config, remembered, java, helper_status, found, jars, menu,
                   line, prompt_history, idx, chosen_jar, save_result, server_jar,
                   parsed, history>>

match_frame == <<dir, remembered, java, helper_status, found, line, prompt_history, idx,
                 chosen_jar, save_result, stages, parsed, history>>

MatchServerJar ==
    /\ pc = "match"
    /\ found.tag = "ServerJar"
    /\ server_jar' = file_name(found.path)
    /\ pc' = "spawn"
    /\ UNCHANGED <<match_frame, config, jars, menu, abort_reason>>

\* a plausible slip: the lone unknown jar is stored as the preference too
MatchOneUnknownJar_saving ==
    /\ pc = "match"
    /\ found.tag = "OneUnknownJar"
    /\ server_jar' = file_name(found.path)
    /\ config' = save_jar_preference(found.path, config, "ok").file
    /\ pc' = "spawn"
    /\ UNCHANGED <<match_frame, jars, menu, abort_reason>>

MatchOneUnknownJar ==
    /\ pc = "match"
    /\ found.tag = "OneUnknownJar"
    /\ server_jar' = file_name(found.path)
    /\ pc' = "spawn"
    /\ UNCHANGED <<match_frame, config, jars, menu, abort_reason>>

\* the MultipleJars arm up to the first read of ask_which_jar_to_use:
\* the menu is printed
MatchMultipleJars ==
    /\ pc = "match"
    /\ found.tag = "MultipleJars"
    /\ jars' = found.jars
    /\ menu' = print_menu(found.jars)
    /\ pc' = "ask"
    /\ UNCHANGED <<match_frame, config, server_jar, abort_reason>>

MatchPreferredJar ==
    /\ pc = "match"
    /\ found.tag = "PreferredJar"
    /\ server_jar' = file_name(found.path)
    /\ pc' = "spawn"
    /\ UNCHANGED <<match_frame, config, jars, menu, abort_reason>>

MatchNone ==
    /\ pc = "match"
    /\ found.tag = "None"
    /\ pc' = "aborted"
    /\ abort_reason' = "no jars"
    /\ UNCHANGED <<match_frame, config, jars, menu, server_jar>>

Bump(n) == IF n < MaxRetries THEN n + 1 ELSE n

\* loop { ... }: no exit but break and the ? of read_line
prompt_gives_up(rejected) == FALSE

\* stdin.read_line(&mut line)? succeeding: the turn now has its line
AskReadLine ==
    /\ pc = "ask"
    /\ \E input \in StdinLines : line' = input
    /\ pc' = "turn"
    /\ UNCHANGED <<dir, config, remembered, java, helper_status, found, jars, menu,
                   prompt_history, idx, chosen_jar, save_result, server_jar, stages,
                   abort_reason, parsed, history>>

\* the rest of the turn: break with the idx, or log the error (which is then
\* dropped with the line) and prompt again;
\* on break ask_which_jar_to_use returns get_jar_from_jars(jars, idx, server_jar index)
AskTurn ==
    /\ pc = "turn"
    /\ LET turn == prompt_turn(jars, line)
       IN  /\ IF turn.break
              THEN /\ idx' = turn.idx
                   /\ parsed' = turn.parsed
                   /\ chosen_jar' =
                          <<get_jar_from_jars(jars, turn.idx, server_jar_idx_of(jars))>>
                   /\ pc' = "save"
                   /\ UNCHANGED <<line, prompt_history, abort_reason>>
              ELSE /\ retries' = Bump(retries)
                   /\ rejected_blank' = (Len(trim(line)) = 0)
                   /\ line' = <<>>
                   /\ parsed' = NotParsed
                   /\ pc' = IF prompt_gives_up(retries') THEN "aborted" ELSE "ask"
                   /\ abort_reason' =
                          IF pc' = "aborted" THEN "too many retries" ELSE ""
                   /\ UNCHANGED <<idx, chosen_jar>>
    /\ UNCHANGED <<dir, config, remembered, java, helper_status, found, jars, menu,
                   save_result, server_jar, stages, history>>

\* stdin.read_line(&mut line)? failing: ask_which_jar_to_use and main return the error
AskReadError ==
    /\ pc = "ask"
    /\ pc' = "aborted"
    /\ abort_reason' = "stdin failed"
    /\ UNCHANGED <<dir, config, remembered, java, helper_status, found, jars, menu,
                   line, prompt_history, idx, chosen_jar, save_result, server_jar,
                   stages, parsed, history>>

\* a plausible slip: a failed save ends the run
after_save_propagating(result) == IF result = "ok" THEN "spawn" ELSE "aborted"

\* if let Err(e) = save_jar_preference(..) { warn!(...) }: logged, nothing else
after_save(result) == "spawn"

\* the rest of the MultipleJars arm: the choice is saved and becomes server_jar
SaveJarPreference ==
    /\ pc = "save"
    /\ \E write \in {"ok", "untouched", "truncated"} :
           LET saved == save_jar_preference(chosen_jar[1], config, write)
           IN  /\ config' = saved.file
               /\ save_result' = saved.result
               /\ remembered' =
                      IF saved.result = "ok" THEN file_name(chosen_jar[1])
                      ELSE IF saved.file = config THEN remembered ELSE <<>>
               /\ pc' = after_save(saved.result)
    /\ abort_reason' = IF pc' = "aborted" THEN "save failed" ELSE ""
    /\ server_jar' = file_name(chosen_jar[1])
    /\ line' = <<>>
    /\ retries' = 0
    /\ rejected_blank' = FALSE
    /\ parsed' = NotParsed
    /\ UNCHANGED <<dir, java, helper_status, found, jars, menu, idx, chosen_jar,
                   stages, history>>

spawn_frame == <<dir, config, remembered, java, helper_status, found, jars, menu,
                 line, prompt_history, idx, chosen_jar, save_result, server_jar, parsed,
                 history>>

\* Command::new(&java)...spawn().unwrap()
SpawnMinecraft ==
    /\ pc = "spawn"
    /\ \E spawned \in BOOLEAN :
           /\ pc' = IF spawned THEN "wait" ELSE "aborted"
           /\ abort_reason' = IF spawned THEN "" ELSE "spawn failed"
    /\ stages' = Append(stages, "spawn")
    /\ UNCHANGED spawn_frame

\* minecraft_process.wait(): either result is logged
WaitMinecraft ==
    /\ pc = "wait"
    /\ pc' = "done"
    /\ stages' = Append(stages, "wait")
    /\ UNCHANGED <<spawn_frame, abort_reason>>

\* the process is gone; the directory and the preference file stay
Exit ==
    /\ pc \in {"done", "aborted"}
    /\ pc' = "idle"
    /\ java' = <<>>
    /\ helper_status' = ""
    /\ found' = NotFoundYet
    /\ jars' = <<>>
    /\ menu' = <<>>
    /\ line' = <<>>
    /\ retries' = 0
    /\ rejected_blank' = FALSE
    /\ idx' = 0
    /\ chosen_jar' = <<>>
    /\ save_result' = ""
    /\ server_jar' = <<>>
    /\ stages' = <<>>
    /\ abort_reason' = ""
    /\ parsed' = NotParsed
    /\ UNCHANGED <<dir, config, remembered, history>>

Next ==
    \/ AddJar
    \/ RemoveJar
    \/ EditConfig
    \/ FindJava
    \/ LaunchHelper
    \/ FindServerJar
    \/ FindServerJarFails
    \/ MatchServerJar
    \/ MatchOneUnknownJar
    \/ MatchMultipleJars
    \/ MatchPreferredJar
    \/ MatchNone
    \/ AskReadLine
    \/ AskTurn
    \/ AskReadError
    \/ SaveJarPreference
    \/ SpawnMinecraft
    \/ WaitMinecraft
    \/ Exit

Spec == Init /\ [][Next]_vars

----------------------------------------------------------------------------
(* SpecIdx: get_jar_from_jars on every list and position *)

IdxNames == {ServerJarName} \cup OtherJarNames(MaxIdxOthers)

IdxLists ==
    {[i \in 1..Len(l) |-> join(current_dir, l[i])] :
        l \in ListsUpTo(IdxNames, Cardinality(IdxNames))}

unit_frame == <<dir, config, remembered, java, helper_status, found, retries,
                rejected_blank, save_result, server_jar, stages, abort_reason, config_at_start,
                run_pref>>

UnitInit ==
    /\ dir = FixedEntries
    /\ config = ConfigMissing
    /\ remembered = <<>>
    /\ config_at_start = config
    /\ run_pref = <<>>
    /\ java = <<>>
    /\ helper_status = ""
    /\ found = NotFoundYet
    /\ retries = 0
    /\ rejected_blank = FALSE
    /\ save_result = ""
    /\ server_jar = <<>>
    /\ stages = <<>>
    /\ abort_reason = ""

InitIdx ==
    /\ UnitInit
    /\ pc = "idx_ready"
    /\ jars \in IdxLists
    /\ menu = <<>>
    /\ line = <<>>
    /\ idx = 0
    /\ chosen_jar = <<>>
    /\ parsed = NotParsed

\* the menu is printed for jars and get_jar_from_jars is called with a position
GetJar ==
    /\ pc = "idx_ready"
    /\ \E i \in 0..(Len(jars) - 1) :
           /\ idx' = i
           /\ chosen_jar' = <<get_jar_from_jars(jars, i, server_jar_idx_of(jars))>>
    /\ menu' = print_menu(jars)
    /\ pc' = "idx_done"
    /\ UNCHANGED <<unit_frame, jars, line, parsed>>

NextIdx == GetJar

SpecIdx == InitIdx /\ [][NextIdx]_vars

----------------------------------------------------------------------------
(* SpecParse: parse_number_in_range on every line and range 1..=n *)

RangeLists ==
    {[i \in 1..n |-> join(current_dir, Name(OtherStems[i], "jar"))] : n \in 1..MaxRange}

InitParse ==
    /\ UnitInit
    /\ pc = "parse_ready"
    /\ jars \in RangeLists
    /\ line \in ParseLines
    /\ menu = <<>>
    /\ idx = 0
    /\ chosen_jar = <<>>
    /\ parsed = NotParsed

\* parse_number_in_range(&line, 1..=jars.len())
ParseLine ==
    /\ pc = "parse_ready"
    /\ parsed' = parse_number_in_range(line, 1, Len(jars))
    /\ pc' = "parse_done"
    /\ UNCHANGED <<unit_frame, jars, line, menu, idx, chosen_jar>>

NextParse == ParseLine

SpecParse == InitParse /\ [][NextParse]_vars

----------------------------------------------------------------------------
(* What the properties are stated in: the directory as a set, the lines as   *)
(* text, independently of the order of the scan and of the code's operators. *)

\* the names of the regular files of the directory whose extension is jar
JarFiles == {e.name : e \in {d \in dir : d.is_file /\ d.name.ext = "jar"}}

JarPaths == {join(current_dir, n) : n \in JarFiles}

SeqRange(q) == {q[i] : i \in 1..Len(q)}

\* q lists every element of S exactly once
ListsExactly(q, S) == SeqRange(q) = S /\ Len(q) = Cardinality(S)

\* the preference file loads and names a jar file of the directory
PreferenceUsable ==
    /\ config.kind = "valid"
    /\ \E n \in JarFiles : file_name(config.jar_preference) = <<n>>

\* the outcome the policy gives the directory when no preference applies
OutcomeWithoutPreference(f) ==
    /\ JarFiles = {} => f = FoundNone
    /\ JarFiles = {ServerJarName} => f = ServerJar(join(current_dir, ServerJarName))
    /\ \A n \in JarNames \ {ServerJarName} :
           JarFiles = {n} => f = OneUnknownJar(join(current_dir, n))
    /\ Cardinality(JarFiles) >= 2 =>
           /\ f.tag = "MultipleJars"
           /\ f.path = NoPath
           /\ ListsExactly(f.jars, JarPaths)

HasDefault(js) == \E i \in 1..Len(js) : file_name(js[i]) = <<ServerJarName>>

IsBlank(l) == \A i \in 1..Len(l) : l[i] \in {" ", "\t", "\n", "\r"}

\* position of x in the list q
PositionIn(q, x) == CHOOSE i \in 1..Len(q) : q[i] = x

\* blank space, then digits, then at most the end of the line
IsNumberLine(l) ==
    \E k \in 0..Len(l), m \in 1..Len(l) :
        /\ k < m
        /\ \A i \in 1..k : l[i] \in {" ", "\t"}
        /\ \A i \in (k + 1)..m : l[i] \in Digits
        /\ \A i \in (m + 1)..Len(l) : l[i] \in {" ", "\t", "\n", "\r"}

StageOrder == <<"java", "helper", "select", "spawn", "wait">>

IsPrefix(a, b) == Len(a) <= Len(b) /\ \A i \in 1..Len(a) : a[i] = b[i]

\* save_jar_preference has returned in this run
AfterSave == save_result # ""

\* the accepted line of a finished prompt, seen from the state after the break
Accepted(js, l) ==
    \/ IsBlank(l) /\ HasDefault(js)
    \/ ~IsBlank(l) /\ parse_number_in_range(l, 1, Len(js)).ok

----------------------------------------------------------------------------
(* The claims *)

\* C1: for every non-empty jar list and every position idx, get_jar_from_jars
\* returns the jar printed under menu label idx + 1; the menu holds every jar
\* once, the default (server.jar) first when there is one and the other jars
\* in their original relative order; with no default the result is jars[idx].
C1_ChoiceMatchesMenu ==
    pc = "idx_done" =>
        /\ chosen_jar = <<menu[idx + 1]>>
        /\ ListsExactly(menu, SeqRange(jars))
        /\ HasDefault(jars) => file_name(menu[1]) = <<ServerJarName>>
        /\ \A a, b \in 1..Len(menu) :
               (a < b /\ (HasDefault(jars) => a > 1)) =>
                   PositionIn(jars, menu[a]) < PositionIn(jars, menu[b])
        /\ ~HasDefault(jars) => chosen_jar = <<At(jars, idx)>>

\* C1 witness: the list of the unit test, default at index 2, position 2 gives s2.jar
C1_Witness ==
    /\ pc = "idx_done"
    /\ jars = [i \in 1..5 |->
                  join(current_dir,
                       <<Name("s1", "jar"), Name("s2", "jar"), ServerJarName,
                         Name("s3", "jar"), Name("s4", "jar")>>[i])]
    /\ idx = 2
    /\ chosen_jar = <<join(current_dir, Name("s2", "jar"))>>

\* C2 (as claimed): parse_number_in_range accepts a line only when it is blank
\* space followed by digits and nothing but the end of the line, with the
\* value inside 1..n
C2_AcceptsOnlyNumbers ==
    (pc = "parse_done" /\ parsed.ok) =>
        /\ IsNumberLine(line)
        /\ parsed.num \in 1..Len(jars)

\* C2, the rest of it (holds): an accepted line starts with spaces and a
\* digit and its value is inside 1..n; every number line with its value inside
\* 1..n is accepted; "  3" is accepted, "0", "999", "aaa" and "-1" are rejected
C2_HoldsApartFromTrailingGarbage ==
    pc = "parse_done" =>
        /\ parsed.ok =>
               /\ parsed.num \in 1..Len(jars)
               /\ \E k \in 0..(Len(line) - 1) :
                      (\A i \in 1..k : line[i] = " ") /\ line[k + 1] \in Digits
        /\ (IsNumberLine(line)
              /\ parse_usize(take_digits(skip_space0(line))) \in 1..Len(jars)) => parsed.ok
        /\ (line = <<" ", " ", "3">> /\ Len(jars) = 3) => parsed = ParseOk(3)
        /\ line \in {<<"0">>, <<"9", "9", "9">>, <<"a", "a", "a">>, <<"-", "1">>}
               => ~parsed.ok

\* C3: a blank line ends the prompt loop, choosing the default, only when the
\* list has a server.jar; with no default a blank line is rejected and the
\* prompt is shown again; the loop ends on the first accepted line and on no
\* rejected one, however many lines were rejected before (only a failing read
\* ends it otherwise).
C3_PromptLoop ==
    /\ [](pc = "save" =>
            /\ Accepted(jars, line)
            /\ IsBlank(line) => HasDefault(jars) /\ file_name(chosen_jar[1]) = <<ServerJarName>>)
    /\ [](rejected_blank => ~HasDefault(jars))
    /\ [][pc = "turn" =>
            /\ pc' \in {"save", "ask"}
            /\ pc' = "save" <=> Accepted(jars, line)
            /\ (IsBlank(line) /\ ~HasDefault(jars)) => pc' = "ask"]_vars
    /\ [][pc = "ask" =>
            \/ pc' = "turn"
            \/ pc' = "aborted" /\ abort_reason' = "stdin failed"]_vars

\* C3 witness: no default, a blank line was rejected and the prompt is shown again
C3_Witness ==
    /\ pc = "ask"
    /\ rejected_blank
    /\ retries >= 1
    /\ ~HasDefault(jars)

\* C4: with no usable preference the outcome is fixed by the set of jar files:
\* None for no jar, ServerJar for server.jar alone, OneUnknownJar for another
\* jar alone, MultipleJars with the whole scanned list for two or more.
C4_OutcomeWithoutPreference ==
    (pc = "match" /\ ~PreferenceUsable) => OutcomeWithoutPreference(found)

\* C4 witness: a lone s1.jar beside a preference file that does not parse
C4_Witness ==
    /\ pc = "match"
    /\ config = ConfigCorrupt
    /\ JarFiles = {Name("s1", "jar")}
    /\ found.tag = "OneUnknownJar"

\* C5: the outcome is PreferredJar(p, jars) exactly when the directory has a
\* jar, the preference loads and p is the scanned jar whose file name is the
\* preferred one; a preference naming no scanned jar gives the outcome of a
\* directory with no preference file.
C5_PreferredOnlyFromScan ==
    pc = "match" =>
        /\ found.tag = "PreferredJar" <=> (JarFiles # {} /\ PreferenceUsable)
        /\ found.tag = "PreferredJar" =>
               /\ found.path \in JarPaths
               /\ file_name(found.path) = file_name(config.jar_preference)
               /\ ListsExactly(found.jars, JarPaths)
        /\ ~PreferenceUsable => OutcomeWithoutPreference(found)

\* C5 witness: the preference names old.jar, absent from a directory of several jars
C5_Witness ==
    /\ pc = "match"
    /\ config = ConfigValid(<<StaleName>>)
    /\ Cardinality(JarFiles) >= 2
    /\ found.tag = "MultipleJars"

\* C6: a run leaves the preference file as it found it unless its outcome is
\* MultipleJars and the choice at the prompt was completed.
C6_WrittenOnlyAfterChoice ==
    (pc # "idle" /\ (found.tag # "MultipleJars" \/ chosen_jar = <<>> \/ pc = "save"))
        => config = config_at_start

\* C6 witness: a run that launched a lone unknown jar and ended
C6_Witness ==
    /\ pc = "done"
    /\ found.tag = "OneUnknownJar"
    /\ config = config_at_start

\* C7 (as claimed): after save_jar_preference was called, its write not
\* failing, the file holds exactly the file name of the chosen jar, whatever
\* it held before
C7_SaveAlwaysOverwrites ==
    (AfterSave /\ save_result # "write_err") =>
        config = ConfigValid(file_name(chosen_jar[1]))

\* C7 (amended): a save that succeeds leaves exactly the file name of the
\* chosen jar in the file; it succeeds, the write not failing, when the file
\* was absent or held a preference; when the file did not parse the save
\* returns the read error and the file is left as it was.
C7_SaveOverwritesUnlessUnparsable ==
    AfterSave =>
        /\ save_result = "ok" =>
               /\ config = ConfigValid(file_name(chosen_jar[1]))
               /\ Len(config.jar_preference) = 1
        /\ (config_at_start.kind # "corrupt" /\ save_result # "write_err") =>
               save_result = "ok"
        /\ config_at_start.kind = "corrupt" =>
               /\ save_result = "read_err"
               /\ config = config_at_start

\* C7 witness: an older preference is replaced by the new choice
C7_Witness ==
    /\ AfterSave
    /\ save_result = "ok"
    /\ config_at_start = ConfigValid(<<StaleName>>)
    /\ config = ConfigValid(<<Name("s1", "jar")>>)

\* C8: the stages run in the order Java location, helper, jar selection,
\* spawn, wait; without a Java runtime nothing follows the first stage; with
\* no jar nothing is spawned; a run spawns at most once.
C8_StageOrder ==
    /\ IsPrefix(stages, StageOrder)
    /\ (pc # "idle" /\ java = <<>>) =>
           /\ pc = "aborted"
           /\ stages = <<"java">>
           /\ helper_status = ""
           /\ found = NotFoundYet
    /\ found.tag = "None" => stages \in {<<"java", "helper", "select">>}
    /\ Cardinality({i \in 1..Len(stages) : stages[i] = "spawn"}) <= 1
    /\ pc = "aborted" => stages # StageOrder
    /\ pc \in {"wait", "done"} => Len(stages) >= 4 /\ server_jar # <<>>

\* C8 witness: no Java runtime, the run stopped after the first stage
C8_Witness ==
    /\ pc = "aborted"
    /\ java = <<>>
    /\ abort_reason = "Java not found"
    /\ stages = <<"java">>

\* C9: a failing helper, a preference file that cannot be read or parsed and
\* a failing save end no run: with a Java runtime and a jar in the directory
\* a run ends early only on a failing read_dir, a failing read of standard
\* input or a failing spawn, and what is spawned is the jar of the outcome,
\* or the jar chosen at the prompt.
C9_RecoverableFailuresOnlyLogged ==
    /\ pc = "aborted" =>
           abort_reason \in {"Java not found", "read_dir failed", "no jars",
                             "stdin failed", "spawn failed"}
    /\ (pc = "aborted" /\ java # <<>> /\ JarFiles # {}) =>
           abort_reason \in {"read_dir failed", "stdin failed", "spawn failed"}
    /\ helper_status = "err" => pc # "helper"
    /\ AfterSave => pc \in {"spawn", "wait", "done"} \/ abort_reason = "spawn failed"
    /\ (pc \in {"spawn", "wait", "done"} \/ abort_reason = "spawn failed") =>
           /\ found.tag \in {"ServerJar", "OneUnknownJar", "PreferredJar"} =>
                  server_jar = file_name(found.path)
           /\ found.tag = "MultipleJars" =>
                  /\ server_jar = file_name(chosen_jar[1])
                  /\ chosen_jar[1] \in JarPaths
                  /\ chosen_jar = <<menu[idx + 1]>>

\* C9 witness: the helper failed, the preference file did not parse, the save
\* failed, and the chosen jar is running
C9_Witness ==
    /\ pc = "wait"
    /\ helper_status = "err"
    /\ config_at_start = ConfigCorrupt
    /\ save_result = "read_err"
    /\ server_jar = file_name(chosen_jar[1])

\* C10: after a run saved the choice j, every later run over a directory that
\* still has j and the same preference file gets PreferredJar with j, hands j
\* to the spawn, never prompts and never saves, server.jar present or not.
C10_RememberedChoice ==
    /\ remembered # <<>> => config = ConfigValid(remembered)
    /\ (pc # "idle" /\ run_pref # <<>> /\ run_pref[1] \in JarFiles) =>
           /\ config = ConfigValid(run_pref)
           /\ found # NotFoundYet =>
                  /\ found.tag = "PreferredJar"
                  /\ found.path = join(current_dir, run_pref[1])
           /\ pc \notin {"ask", "turn", "save"}
           /\ line = <<>> /\ retries = 0 /\ chosen_jar = <<>>
           /\ save_result = ""
           /\ pc \in {"spawn", "wait", "done"} => server_jar = run_pref

\* C10 witness: s1.jar was chosen in an earlier run; this run has server.jar
\* beside it and runs s1.jar
C10_Witness ==
    /\ pc = "wait"
    /\ run_pref = <<Name("s1", "jar")>>
    /\ ServerJarName \in JarFiles
    /\ found.tag = "PreferredJar"
    /\ server_jar = <<Name("s1", "jar")>>

====
